---- MODULE Spec2Model ----
(***************************************************************************)
(* Dense linear-algebra kernel of TechRoot/Glass (20210412/cpp): matrix    *)
(* primitives, Householder QR, the QR solver, Gauss-Jordan inversion and   *)
(* the normal-equations pseudoinverse.                                     *)
(*                                                                         *)
(* A `double` is modelled by an exact rational <<num, den>> (den > 0,      *)
(* lowest terms), so every arithmetic step of the code is reproduced       *)
(* without rounding.  std::sqrt is exact on the squares of rationals; the  *)
(* QR inputs are the matrices on which every column norm taken by the      *)
(* algorithm is such a square.  The normalised Householder vector          *)
(* v / norm_v is kept as (coefficient, norm_v^2), see householder_reflect. *)
(* A matrix is a sequence of rows, as std::vector<std::vector<double>>.    *)
(*                                                                         *)
(* Its collaborators: graphs::dijkstra (qr.hpp), with integer weights and  *)
(* the priority queue as a bag of << key, node >>, and the PowerShell      *)
(* module modular_arithmetic.psm1 (Get-GcdExtended, Get-InverseMod,        *)
(* Solve-CRT) on integers, nodes and list positions counted from 1.        *)
(***************************************************************************)
EXTENDS Integers, Sequences, FiniteSets, Bags

(* ------------------------------ bounds --------------------------------- *)
\* largest number of rows and of columns of an enumerated input matrix
MaxDim == 3
\* largest number of cells (rows * cols) of an enumerated input matrix
MaxCells == 4
\* enumerated input entries are the integers -MaxEntry .. MaxEntry
MaxEntry == 2

(* --------------------------- double arithmetic ------------------------- *)
Abs(x) == IF x < 0 THEN -x ELSE x

RECURSIVE GCD(_, _)
GCD(a, b) == IF b = 0 THEN a ELSE GCD(b, a % b)

Rat(n, d) ==
    LET s == IF d < 0 THEN -1 ELSE 1
        g == GCD(Abs(n), Abs(d))
    IN  << (s * n) \div g, (s * d) \div g >>

D(k) == << k, 1 >>
Zero == D(0)
One == D(1)

\* sums and products cancel common factors first, so that intermediate
\* numerators and denominators stay within 32 bits
RAdd(a, b) ==
    LET g == GCD(a[2], b[2])
    IN  Rat(a[1] * (b[2] \div g) + b[1] * (a[2] \div g), (a[2] \div g) * b[2])
RMul(a, b) ==
    LET g1 == GCD(Abs(a[1]), b[2])
        g2 == GCD(Abs(b[1]), a[2])
    IN  Rat((a[1] \div g1) * (b[1] \div g2), (a[2] \div g2) * (b[2] \div g1))
RSub(a, b) == RAdd(a, << -b[1], b[2] >>)
RDiv(a, b) == RMul(a, Rat(b[2], b[1]))
RNeg(a) == << -a[1], a[2] >>
RLt(a, b) == a[1] * b[2] < b[1] * a[2]
fabs(a) == << Abs(a[1]), a[2] >>

RECURSIVE ISqrtBetween(_, _, _)
\* the integer square root of n by bisection, lo * lo <= n < hi * hi
ISqrtBetween(n, lo, hi) ==
    IF hi - lo <= 1 THEN lo
    ELSE LET mid == (lo + hi) \div 2
         IN  IF mid * mid <= n THEN ISqrtBetween(n, mid, hi)
             ELSE ISqrtBetween(n, lo, mid)
ISqrt(n) == ISqrtBetween(n, 0, IF n < 46341 THEN n + 1 ELSE 46341)
IsSquare(q) == /\ q[1] >= 0
               /\ ISqrt(q[1]) * ISqrt(q[1]) = q[1]
               /\ ISqrt(q[2]) * ISqrt(q[2]) = q[2]
\* std::sqrt, exact on the squares of rationals
sqrt(q) == << ISqrt(q[1]), ISqrt(q[2]) >>

\* the threshold 1e-12 of inverse and solve_qr is 1 / (EpsRoot * EpsRoot)
EpsRoot == 1000000
\* |x| < 1e-12, computed without leaving 32-bit integers
BelowEps(x) ==
    LET n == Abs(x[1])
        q == x[2] \div n
    IN  \/ n = 0
        \/ (q \div EpsRoot) > EpsRoot
        \/ /\ (q \div EpsRoot) = EpsRoot
           /\ (q % EpsRoot > 0 \/ x[2] % n > 0)

(* --------------------------- matrix primitives ------------------------- *)
RECURSIVE SumTo(_, _)
\* sum of f[1] .. f[n], accumulated left to right
SumTo(f, n) == IF n = 0 THEN Zero ELSE RAdd(SumTo(f, n - 1), f[n])

identity(n) == [i \in 1..n |-> [j \in 1..n |-> IF i = j THEN One ELSE Zero]]

\* lin::transpose; the read of A[0].size() needs a first row
transpose(A) ==
    LET m == Len(A)
        n == Len(A[1])
    IN  [j \in 1..n |-> [i \in 1..m |-> A[i][j]]]

\* lin::matmul on operands whose rows it reads exist: n = A[0].size() rows of B
matmul(A, B) ==
    LET m == Len(A)
        n == Len(A[1])
        p == Len(B[1])
    IN  [i \in 1..m |-> [j \in 1..p |->
            SumTo([k \in 1..n |-> RMul(A[i][k], B[k][j])], n)]]

(* ------------------------------ HouseholderQR -------------------------- *)
\* the projection taken once instead of twice
TwiceProj_once(p) == p
\* proj *= 2.0
TwiceProj(p) == RMul(D(2), p)

\* sum of squares of the entries of a vector
SumSq(x) == SumTo([k \in 1..Len(x) |-> RMul(x[k], x[k])], Len(x))

\* x: rows start.. of column col of A
SubColumn(A, start, col) == [k \in 1..(Len(A) - start + 1) |-> A[start + k - 1][col]]

\* householder_reflect(A, Q, start, col), rows and columns counted from 1.
\* The code divides v by norm_v = sqrt(norm_v2); norm_v itself is irrational
\* in general, so the normalised entry v[k] / norm_v is held as vc[k] * norm_v
\* with vc[k] = v[k] / norm_v2, a projection as (coefficient) * norm_v, and a
\* product of the two as coefficient * vc[k] * norm_v2.
householder_reflect(A, Q, start, col) ==
    LET m == Len(A)
        x == SubColumn(A, start, col)
        len == Len(x)
        norm_x == sqrt(SumSq(x))
        v == [k \in 1..len |->
                IF k = 1
                THEN RAdd(x[1], IF ~RLt(x[1], Zero) THEN norm_x ELSE RNeg(norm_x))
                ELSE x[k]]
        norm_v2 == SumSq(v)
        vc == [k \in 1..len |-> RDiv(v[k], norm_v2)]
        n == Len(A[1])
        projA == [j \in 1..n |->
                    TwiceProj(SumTo([k \in 1..len |-> RMul(vc[k], A[start + k - 1][j])], len))]
        newA == [r \in 1..m |-> [j \in 1..n |->
                    IF r >= start /\ j >= col
                    THEN RSub(A[r][j], RMul(RMul(projA[j], vc[r - start + 1]), norm_v2))
                    ELSE A[r][j]]]
        qrows == Len(Q)
        projQ == [j \in 1..qrows |->
                    TwiceProj(SumTo([k \in 1..len |-> RMul(vc[k], Q[j][start + k - 1])], len))]
        newQ == [j \in 1..qrows |-> [c \in 1..Len(Q[j]) |->
                    IF c >= start
                    THEN RSub(Q[j][c], RMul(RMul(projQ[j], vc[c - start + 1]), norm_v2))
                    ELSE Q[j][c]]]
    IN  IF norm_x = Zero THEN [A |-> A, Q |-> Q]
        ELSE IF norm_v2 = Zero THEN [A |-> A, Q |-> Q]
        ELSE [A |-> newA, Q |-> newQ]

\* min_dim = m < n ? m : n
min_dim(A) == IF Len(A) < Len(A[1]) THEN Len(A) ELSE Len(A[1])

\* the cleanup reaching the diagonal
ZeroBelowDiagonal_diag(M) ==
    [r \in 1..Len(M) |-> [j \in 1..Len(M[r]) |-> IF j <= r THEN Zero ELSE M[r][j]]]
\* the cleanup loop of qr_decompose: R[i][j] = 0.0 for j < i
ZeroBelowDiagonal(M) ==
    [r \in 1..Len(M) |-> [j \in 1..Len(M[r]) |-> IF j < r THEN Zero ELSE M[r][j]]]

\* the orthogonal factor qr_decompose hands back for the accumulator Q
ReturnedQ(Qacc) == transpose(Qacc)

RECURSIVE ExactFrom(_, _, _)
\* every norm_x that qr_decompose takes from column col on is the square
\* root of the square of a rational
ExactFrom(M, Qacc, col) ==
    IF col > min_dim(M) THEN TRUE
    ELSE /\ IsSquare(SumSq(SubColumn(M, col, col)))
         /\ LET s == householder_reflect(M, Qacc, col, col)
            IN  ExactFrom(s.A, s.Q, col + 1)

(* ---------------------------- LeastSquaresSolver ------------------------ *)
RECURSIVE BackSubstitute(_, _, _, _)
\* the back-substitution loop of solve_qr from row i down to row 1
BackSubstitute(M, y, i, x) ==
    IF i = 0 THEN [kind |-> "vector", val |-> x]
    ELSE LET n == Len(x)
             sum == SumTo([k \in 1..(n - i) |-> RMul(M[i][i + k], x[i + k])], n - i)
             val == RSub(y[i], sum)
             diag == M[i][i]
         IN  IF BelowEps(diag) THEN [kind |-> "SingularSystem"]
             ELSE BackSubstitute(M, y, i - 1, [x EXCEPT ![i] = RDiv(val, diag)])

\* solve_qr(Q, R, b) for R with at least as many rows as columns
solve_qr(Qm, Rm, b) ==
    LET m == Len(Qm)
        n == Len(Rm[1])
        y == [c \in 1..m |-> SumTo([j \in 1..m |-> RMul(Qm[j][c], b[j])], m)]
    IN  IF Len(b) # m THEN [kind |-> "DimensionMismatch"]
        ELSE BackSubstitute(Rm, y, n, [k \in 1..n |-> Zero])

(* ---------------------------- GaussJordanInverter ----------------------- *)
\* static multiply of the pseudoinverse unit: inner = B.size(), zero entries
\* of A are skipped
multiply(M, N) ==
    LET m == Len(M)
        n == Len(N[1])
        inner == Len(N)
    IN  [r \in 1..m |-> [j \in 1..n |->
            SumTo([k \in 1..inner |->
                     IF M[r][k] # Zero THEN RMul(M[r][k], N[k][j]) ELSE Zero], inner)]]

\* only matrices with too few columns are turned away
NotSquare_short(M) == M = << >> \/ Len(M[1]) < Len(M)
\* A.empty() || A[0].size() != n
NotSquare(M) == M = << >> \/ Len(M[1]) # Len(M)

\* the augmented matrix [A | I]
Augment(M) ==
    LET n == Len(M)
    IN  [r \in 1..n |-> [j \in 1..(2 * n) |->
            IF j <= n THEN M[r][j] ELSE IF j - n = r THEN One ELSE Zero]]

\* the comparison without std::fabs
BetterPivot_signed(cand, cur) == RLt(cur, cand)
\* the comparison with >= for >
BetterPivot_last(cand, cur) == ~RLt(fabs(cand), fabs(cur))
\* std::fabs(aug[r][i]) > std::fabs(aug[pivot][i])
BetterPivot(cand, cur) == RLt(fabs(cur), fabs(cand))

RECURSIVE PivotFrom(_, _, _, _)
\* the pivot search loop from row r on, pivot being the best row so far
PivotFrom(aug, i, r, pivot) ==
    IF r > Len(aug) THEN pivot
    ELSE PivotFrom(aug, i, r + 1,
                   IF BetterPivot(aug[r][i], aug[pivot][i]) THEN r ELSE pivot)

SelectPivot(aug, i) == PivotFrom(aug, i, i, i)

\* std::swap(aug[pivot], aug[i])
SwapRows(aug, pivot, i) ==
    [r \in 1..Len(aug) |-> IF r = i THEN aug[pivot] ELSE IF r = pivot THEN aug[i] ELSE aug[r]]

\* the pivot row left as it is
NormalizeRow_none(aug, i) == aug
\* aug[i][j] /= diag
NormalizeRow(aug, i) ==
    LET diag == aug[i][i]
    IN  [aug EXCEPT ![i] = [j \in 1..Len(aug[i]) |-> RDiv(aug[i][j], diag)]]

\* only the rows below the pivot row are eliminated
SkipRow_above(r, i) == r <= i
\* if (r == i) continue;
SkipRow(r, i) == r = i

\* aug[r][j] -= factor * aug[i][j] for every other row r
EliminateOthers(aug, i) ==
    [r \in 1..Len(aug) |->
        IF SkipRow(r, i) THEN aug[r]
        ELSE LET factor == aug[r][i]
             IN  IF factor # Zero
                 THEN [j \in 1..Len(aug[r]) |-> RSub(aug[r][j], RMul(factor, aug[i][j]))]
                 ELSE aug[r]]

\* one iteration of the elimination loop on pivot column i
PivotIteration(aug, i) ==
    LET pivot == SelectPivot(aug, i)
    IN  IF BelowEps(aug[pivot][i]) THEN [kind |-> "SingularMatrix"]
        ELSE [kind |-> "aug",
              val |-> EliminateOthers(NormalizeRow(SwapRows(aug, pivot, i), i), i)]

\* inv[i][j] = aug[i][n + j]
ExtractInverse(aug) ==
    LET n == Len(aug)
    IN  [r \in 1..n |-> [j \in 1..n |-> aug[r][n + j]]]

RECURSIVE GaussJordan(_, _)
\* the elimination loop from pivot column i on, then the extraction
GaussJordan(aug, i) ==
    IF i > Len(aug) THEN [kind |-> "matrix", val |-> ExtractInverse(aug)]
    ELSE LET s == PivotIteration(aug, i)
         IN  IF s.kind = "SingularMatrix" THEN s ELSE GaussJordan(s.val, i + 1)

inverse(M) ==
    IF NotSquare(M) THEN [kind |-> "NonSquareMatrix"]
    ELSE GaussJordan(Augment(M), 1)

(* ---------------------------- PseudoinverseEngine ----------------------- *)
\* the comparison of the shape turned around
ColumnFormula_wide(m, n) == m <= n
\* if (m >= n): the (A^T A)^-1 A^T branch
ColumnFormula(m, n) == m >= n

pseudoinverse(M) ==
    LET m == Len(M)
        n == IF M = << >> THEN 0 ELSE Len(M[1])
        AT == transpose(M)
        ATA_inv == inverse(multiply(AT, M))
        AAT_inv == inverse(multiply(M, AT))
    IN  IF m = 0 \/ n = 0 THEN [kind |-> "matrix", val |-> << >>]
        ELSE IF ColumnFormula(m, n)
        THEN IF ATA_inv.kind # "matrix" THEN ATA_inv
             ELSE [kind |-> "matrix", val |-> multiply(ATA_inv.val, AT)]
        ELSE IF AAT_inv.kind # "matrix" THEN AAT_inv
             ELSE [kind |-> "matrix", val |-> multiply(AT, AAT_inv.val)]

(* -------------------------------- inputs -------------------------------- *)
\* a matrix of doubles from rows of integers
IntMat(rows) == [r \in 1..Len(rows) |-> [c \in 1..Len(rows[r]) |-> D(rows[r][c])]]

Entries == {D(k) : k \in (-MaxEntry)..MaxEntry}

\* m rows of n columns each; zero rows leave no column count
Shapes == {s \in (0..MaxDim) \X (0..MaxDim) :
              s[1] * s[2] <= MaxCells /\ (s[1] = 0 => s[2] = 0)}

MatsOfShape(m, n, E) == [1..m -> [1..n -> E]]

\* the matrices of the unit tests and of the documented scenarios
A_4726 == IntMat(<< <<4, 7>>, <<2, 6>> >>)
A_1224 == IntMat(<< <<1, 2>>, <<2, 4>> >>)
A_2113 == IntMat(<< <<2, 1>>, <<1, 3>> >>)
A_QR3 == IntMat(<< <<12, -51, 4>>, <<6, 167, -68>>, <<-4, 24, -41>> >>)
B_32 == IntMat(<< <<1, 2>>, <<3, 4>>, <<5, 6>> >>)
A_3142 == IntMat(<< <<3, 1>>, <<4, 2>> >>)
A_P3 == IntMat(<< <<0, 2, 1>>, <<1, 1, 0>>, <<2, 0, 1>> >>)
\* the matrices given to inverse, pseudoinverse and transpose besides the
\* enumerated ones, and those given to qr_decompose
Samples == {A_4726, A_1224, A_2113, B_32, A_P3, transpose(B_32)}
QRSamples == {A_QR3, A_3142, A_2113, B_32}

EnumMats == UNION {MatsOfShape(s[1], s[2], Entries) : s \in Shapes}
Mats == EnumMats \cup Samples

\* qr_decompose reads A_in[0]: m, n >= 1; and every norm it takes is exact
QRInputs == {M \in EnumMats \cup QRSamples :
                /\ Len(M) >= 1
                /\ Len(M[1]) >= 1
                /\ ExactFrom(M, identity(Len(M)), 1)}

\* what a read outside a vector may deliver
Garbage == {Zero, One}
\* what the size of a row that does not exist may read as
GarbageSizes == {0, 1}

\* right-hand sides have entries 0 .. MaxRhs
MaxRhs == 1
RhsEntries == {D(k) : k \in 0..MaxRhs}
\* right-hand sides of the length m that solve_qr wants, and one too short
RhsSet(m) == [1..m -> RhsEntries] \cup [1..(m - 1) -> RhsEntries]

\* operands of matmul: 0/1 matrices
BitMats == UNION {MatsOfShape(s[1], s[2], Garbage) : s \in Shapes}

(* --------------------------------- state -------------------------------- *)
VARIABLES
    op,      \* the entry point being executed
    pc,      \* "idle", inside a loop of the entry point, or "done"
    A,       \* its first argument
    B,       \* its second argument, if it has one
    Q,       \* qr_decompose: the accumulator, then the returned factor Q
    R,       \* qr_decompose: the working copy, then the returned factor R
    col,     \* qr_decompose: loop variable, counted from 1
    aug,     \* inverse: the augmented matrix
    i,       \* inverse: pivot column, counted from 1
    result,  \* what the call returned or threw
    oob,     \* the call read a row or an entry that its operand does not have
    adj,     \* dijkstra: the adjacency lists, one per node
    source,  \* dijkstra: the source node, counted from 1
    dist,    \* dijkstra: the distance of every node
    visited, \* dijkstra: the nodes whose out-edges were relaxed
    pq,      \* dijkstra: the priority queue, a bag of << key, node >>
    top      \* dijkstra: the entry << d, u >> taken from the queue

vars == << op, pc, A, B, Q, R, col, aug, i, result, oob,
           adj, source, dist, visited, pq, top >>

\* the state of dijkstra, which the other entry points leave alone
graphVars == << adj, source, dist, visited, pq, top >>

NoResult == [kind |-> "none"]
Crash == [kind |-> "crash"]

Init ==
    /\ op = "none"
    /\ pc = "idle"
    /\ A = << >>
    /\ B = << >>
    /\ Q = << >>
    /\ R = << >>
    /\ col = 0
    /\ aug = << >>
    /\ i = 0
    /\ result = NoResult
    /\ oob = FALSE
    /\ adj = << >>
    /\ source = 0
    /\ dist = << >>
    /\ visited = << >>
    /\ pq = EmptyBag
    /\ top = << >>

\* the caller takes the outcome; nothing is kept between calls
Return ==
    /\ pc = "done"
    /\ op' = "none"
    /\ pc' = "idle"
    /\ A' = << >>
    /\ B' = << >>
    /\ Q' = << >>
    /\ R' = << >>
    /\ col' = 0
    /\ aug' = << >>
    /\ i' = 0
    /\ result' = NoResult
    /\ oob' = FALSE
    /\ adj' = << >>
    /\ source' = 0
    /\ dist' = << >>
    /\ visited' = << >>
    /\ pq' = EmptyBag
    /\ top' = << >>

(* ------------------------ qr_decompose and solve_qr --------------------- *)
\* qr_decompose: R = A_in; Q = identity(m)
CallQR(M) ==
    /\ pc = "idle"
    /\ op' = "qr_decompose"
    /\ pc' = "reflect"
    /\ A' = M
    /\ R' = M
    /\ Q' = identity(Len(M))
    /\ col' = 1
    /\ UNCHANGED << B, aug, i, result, oob >>
    /\ UNCHANGED graphVars

\* one iteration of the column loop: householder_reflect(R, Q, col, col)
Reflect ==
    /\ pc = "reflect"
    /\ col <= min_dim(A)
    /\ LET s == householder_reflect(R, Q, col, col)
       IN  /\ R' = s.A
           /\ Q' = s.Q
    /\ col' = col + 1
    /\ UNCHANGED << op, pc, A, B, aug, i, result, oob >>
    /\ UNCHANGED graphVars

\* after the loop: the cleanup of R, Q = transpose(Q), return
QRReturn ==
    /\ pc = "reflect"
    /\ col > min_dim(A)
    /\ R' = ZeroBelowDiagonal(R)
    /\ Q' = ReturnedQ(Q)
    /\ pc' = "done"
    /\ result' = [kind |-> "qr"]
    /\ UNCHANGED << op, A, B, col, aug, i, oob >>
    /\ UNCHANGED graphVars

\* solve_qr(Q, R, b) on the factors qr_decompose returned.  With more columns
\* than rows the back-substitution starts at a row that R and y do not have.
CallSolve(b) ==
    /\ pc = "done"
    /\ op = "qr_decompose"
    /\ op' = "solve_qr"
    /\ B' = b
    /\ IF Len(b) = Len(Q) /\ Len(R[1]) > Len(R)
       THEN /\ oob' = TRUE
            /\ result' \in {Crash, [kind |-> "SingularSystem"]}
                           \cup {[kind |-> "vector", val |-> [k \in 1..Len(R[1]) |-> g]] :
                                    g \in Garbage}
       ELSE /\ oob' = FALSE
            /\ result' = solve_qr(Q, R, b)
    /\ UNCHANGED << pc, A, Q, R, col, aug, i >>
    /\ UNCHANGED graphVars

NextQR ==
    \/ \E M \in QRInputs : CallQR(M)
    \/ Reflect
    \/ QRReturn
    \/ \E b \in RhsSet(Len(A)) : CallSolve(b)
    \/ Return

SpecQR == Init /\ [][NextQR]_vars

(* ------------------------ inverse and pseudoinverse -------------------- *)
\* inverse(A): the squareness test, then the augmented matrix
CallInverse(M) ==
    /\ pc = "idle"
    /\ op' = "inverse"
    /\ A' = M
    /\ IF NotSquare(M)
       THEN /\ result' = [kind |-> "NonSquareMatrix"]
            /\ pc' = "done"
            /\ UNCHANGED << aug, i >>
       ELSE /\ aug' = Augment(M)
            /\ i' = 1
            /\ pc' = "pivot"
            /\ UNCHANGED result
    /\ UNCHANGED << B, Q, R, col, oob >>
    /\ UNCHANGED graphVars

\* one iteration of the elimination loop
Pivot ==
    /\ pc = "pivot"
    /\ i <= Len(aug)
    /\ LET s == PivotIteration(aug, i)
       IN  IF s.kind = "SingularMatrix"
           THEN /\ result' = s
                /\ pc' = "done"
                /\ UNCHANGED << aug, i >>
           ELSE /\ aug' = s.val
                /\ i' = i + 1
                /\ UNCHANGED << pc, result >>
    /\ UNCHANGED << op, A, B, Q, R, col, oob >>
    /\ UNCHANGED graphVars

\* after the loop: extract the right half and return it
InverseReturn ==
    /\ pc = "pivot"
    /\ i > Len(aug)
    /\ result' = [kind |-> "matrix", val |-> ExtractInverse(aug)]
    /\ pc' = "done"
    /\ UNCHANGED << op, A, B, Q, R, col, aug, i, oob >>
    /\ UNCHANGED graphVars

CallPseudoinverse(M) ==
    /\ pc = "idle"
    /\ op' = "pseudoinverse"
    /\ A' = M
    /\ result' = pseudoinverse(M)
    /\ pc' = "done"
    /\ UNCHANGED << B, Q, R, col, aug, i, oob >>
    /\ UNCHANGED graphVars

NextInv ==
    \/ \E M \in Mats : CallInverse(M)
    \/ Pivot
    \/ InverseReturn
    \/ \E M \in Mats : CallPseudoinverse(M)
    \/ Return

SpecInv == Init /\ [][NextInv]_vars

(* --------------------------- transpose and matmul ---------------------- *)
\* lin::transpose(A).  Without a first row the read of A[0].size() is outside
\* A: the call crashes, or takes some n for the row count of the result.
CallTranspose(M) ==
    /\ pc = "idle"
    /\ op' = "transpose"
    /\ A' = M
    /\ IF Len(M) = 0
       THEN /\ oob' = TRUE
            /\ result' \in {Crash} \cup
                  {[kind |-> "matrix", val |-> [r \in 1..n |-> << >>]] : n \in GarbageSizes}
       ELSE /\ oob' = FALSE
            /\ result' = [kind |-> "matrix", val |-> transpose(M)]
    /\ pc' = "done"
    /\ UNCHANGED << B, Q, R, col, aug, i >>
    /\ UNCHANGED graphVars

\* the rows that matmul reads past the end of N, n being A[0].size()
MissingRows(n, N) == IF n > Len(N) /\ Len(N[1]) >= 1 THEN n - Len(N) ELSE 0

\* lin::matmul(A, B).  There is no test of the shapes: the loops run over
\* m = A.size(), n = A[0].size() and p = B[0].size().
CallMatmul(M, N) ==
    /\ pc = "idle"
    /\ op' = "matmul"
    /\ A' = M
    /\ B' = N
    /\ IF Len(M) = 0
       THEN \* A[0] does not exist; with m = 0 no loop runs
            /\ oob' = TRUE
            /\ result' \in {Crash, [kind |-> "matrix", val |-> << >>]}
       ELSE IF Len(N) = 0
       THEN \* B[0] does not exist: p and every B[k][j] are out of bounds
            /\ oob' = TRUE
            /\ result' \in {Crash} \cup
                  {[kind |-> "matrix", val |-> X] :
                      X \in UNION {MatsOfShape(Len(M), p, Garbage) : p \in GarbageSizes}}
       ELSE IF MissingRows(Len(M[1]), N) > 0
       THEN \* rows B.size() .. n-1 of B do not exist; each reads as a row g
            /\ oob' = TRUE
            /\ result' \in {Crash} \cup
                  {[kind |-> "matrix",
                    val |-> matmul(M, N \o [k \in 1..MissingRows(Len(M[1]), N) |-> g])] :
                      g \in [1..Len(N[1]) -> Garbage]}
       ELSE /\ oob' = FALSE
            /\ result' = [kind |-> "matrix", val |-> matmul(M, N)]
    /\ pc' = "done"
    /\ UNCHANGED << Q, R, col, aug, i >>
    /\ UNCHANGED graphVars

NextOps ==
    \/ \E M \in Mats : CallTranspose(M)
    \/ \E M \in BitMats, N \in BitMats : CallMatmul(M, N)
    \/ Return

SpecOps == Init /\ [][NextOps]_vars

(* -------------------------------- dijkstra ------------------------------ *)
\* std::numeric_limits<double>::infinity(), above every finite distance
Infinity == 2147483647

\* NodeCmp orders the queue by the key alone: top() is an entry of least key,
\* and which one among entries of equal key is left to the heap
IsTop(e, q) == e \in BagToSet(q) /\ \A f \in BagToSet(q) : e[1] <= f[1]

emplace(q, d, u) == q (+) SetToBag({<< d, u >>})

\* continue: the entry belongs to a node that was visited before
Stale_never(u, vis) == FALSE
Stale(u, vis) == vis[u]

\* a weight that dijkstra refuses
IsNegative_below(w) == w < -1
IsNegative(w) == w < 0

\* the length of the path to v through the entry d and the edge of weight w
Alt_edge(d, w) == w
Alt(d, w) == d + w

\* the for loop over the out-edges of the entry's node, from edge k on
RECURSIVE RelaxFrom(_, _, _, _, _)
RelaxFrom(edges, k, d, ds, q) ==
    IF k > Len(edges)
    THEN [kind |-> "relaxed", dist |-> ds, pq |-> q]
    ELSE LET v == edges[k][1]
             w == edges[k][2]
             alt == Alt(d, w)
         IN  IF IsNegative(w)
             THEN [kind |-> "NegativeWeight"]
             ELSE IF alt < ds[v]
                  THEN RelaxFrom(edges, k + 1, d, [ds EXCEPT ![v] = alt],
                                 emplace(q, alt, v))
                  ELSE RelaxFrom(edges, k + 1, d, ds, q)

\* graphs: nodes 1 .. n, a list of << target, weight >> for every node
MaxNodes == 3
MaxEdges == 2
MaxWeight == 1
Weights == (-1)..MaxWeight
Arcs(n) == {a \in (1..n) \X (1..n) : a[1] # a[2]}

\* the out-edges of u under the weights wf, by target from v on
RECURSIVE EdgesFrom(_, _, _, _)
EdgesFrom(wf, u, v, n) ==
    IF v > n THEN << >>
    ELSE IF << u, v >> \in DOMAIN wf
         THEN << << v, wf[<< u, v >>] >> >> \o EdgesFrom(wf, u, v + 1, n)
         ELSE EdgesFrom(wf, u, v + 1, n)

AdjOf(wf, n) == [u \in 1..n |-> EdgesFrom(wf, u, 1, n)]

EnumGraphs ==
    UNION {UNION {{AdjOf(wf, n) : wf \in [E -> Weights]} :
                     E \in {F \in SUBSET Arcs(n) : Cardinality(F) <= MaxEdges}} :
              n \in 1..MaxNodes}

\* the graph of the test: distances 0, 1, 3, 4 from its first node
G_Test == << << <<2, 1>>, <<3, 4>> >>, << <<3, 2>>, <<4, 5>> >>,
             << <<4, 1>> >>, << >> >>
\* a node reached twice at the same key, loops, and parallel edges
G_Loops == << << <<1, 0>>, <<2, 1>>, <<2, 0>> >>, << <<2, 1>>, <<1, 0>> >> >>
\* a negative edge after an edge that improves a distance
G_Late == << << <<2, 1>>, <<3, -1>> >>, << >>, << >> >>

Graphs == EnumGraphs \cup {G_Test, G_Loops, G_Late}

CallDijkstra(g, s) ==
    /\ pc = "idle"
    /\ op' = "dijkstra"
    /\ adj' = g
    /\ source' = s
    /\ dist' = [[v \in 1..Len(g) |-> Infinity] EXCEPT ![s] = 0]
    /\ visited' = [v \in 1..Len(g) |-> FALSE]
    /\ pq' = emplace(EmptyBag, 0, s)
    /\ pc' = "loop"
    /\ UNCHANGED << A, B, Q, R, col, aug, i, result, oob, top >>

\* top, pop, and the test of visited
Pop ==
    /\ pc = "loop"
    /\ pq # EmptyBag
    /\ \E e \in BagToSet(pq) :
          /\ IsTop(e, pq)
          /\ top' = e
          /\ pq' = pq (-) SetToBag({e})
          /\ IF Stale(e[2], visited)
             THEN UNCHANGED << pc, visited >>
             ELSE /\ visited' = [visited EXCEPT ![e[2]] = TRUE]
                  /\ pc' = "relax"
    /\ UNCHANGED << op, A, B, Q, R, col, aug, i, result, oob >>
    /\ UNCHANGED << adj, source, dist >>

\* the for loop over the out-edges of the node taken from the queue
Relax ==
    /\ pc = "relax"
    /\ LET s == RelaxFrom(adj[top[2]], 1, top[1], dist, pq)
       IN  IF s.kind = "NegativeWeight"
           THEN /\ result' = [kind |-> "NegativeWeight"]
                /\ pc' = "done"
                /\ UNCHANGED << dist, pq >>
           ELSE /\ dist' = s.dist
                /\ pq' = s.pq
                /\ pc' = "loop"
                /\ UNCHANGED result
    /\ UNCHANGED << op, A, B, Q, R, col, aug, i, oob >>
    /\ UNCHANGED << adj, source, visited, top >>

DijkstraReturn ==
    /\ pc = "loop"
    /\ pq = EmptyBag
    /\ result' = [kind |-> "dist", val |-> dist]
    /\ pc' = "done"
    /\ UNCHANGED << op, A, B, Q, R, col, aug, i, oob >>
    /\ UNCHANGED graphVars

NextDijkstra ==
    \/ pc = "idle" /\ \E g \in Graphs : \E s \in 1..Len(g) : CallDijkstra(g, s)
    \/ Pop
    \/ Relax
    \/ DijkstraReturn
    \/ Return

SpecDijkstra == Init /\ [][NextDijkstra]_vars

(* --------------------------- modular arithmetic ------------------------- *)
\* the operator % of the module: the remainder takes the sign of the dividend
Rem(a, b) == IF a >= 0 THEN a % Abs(b) ELSE -((-a) % Abs(b))

\* [math]::Floor(a / b)
Floor(a, b) == IF b > 0 THEN a \div b ELSE (-a) \div (-b)

\* << g, x, y >> with A*x + B*y = g
RECURSIVE Get_GcdExtended(_, _)
Get_GcdExtended(a, b) ==
    IF b = 0
    THEN << a, 1, 0 >>
    ELSE LET res == Get_GcdExtended(b, Rem(a, b))
             g == res[1]
             x1 == res[2]
             y1 == res[3]
         IN  << g, y1, x1 - Floor(a, b) * y1 >>

Get_InverseMod(a, m) ==
    LET res == Get_GcdExtended(Abs(a), Abs(m))
        g == res[1]
        x0 == res[2]
    IN  IF g # 1
        THEN [kind |-> "NoInverse"]
        ELSE [kind |-> "int", val |-> Rem(Rem(x0, m) + m, m)]

\* the modulus of the merged congruence
CrtModulus_product(Mt, m, g) == Abs(Mt * m)
CrtModulus(Mt, m, g) == Abs(Mt * m) \div g

\* the for loop of Solve-CRT from congruence k on (k counted from 1)
RECURSIVE CrtFrom(_, _, _, _, _)
CrtFrom(Rests, Mods, k, x0, Mt) ==
    IF k > Len(Mods)
    THEN [kind |-> "crt", Solution |-> x0, Modulus |-> Mt]
    ELSE LET r == Rests[k]
             m == Mods[k]
             res == Get_GcdExtended(Mt, m)
             g == res[1]
             s == res[2]
         IN  IF Rem(r - x0, g) # 0
             THEN [kind |-> "Incompatible"]
             ELSE LET lcm == CrtModulus(Mt, m, g)
                      factor == Floor((r - x0) * s, g)
                      x1 == x0 + Mt * factor
                  IN  CrtFrom(Rests, Mods, k + 1,
                              Rem(Rem(x1, lcm) + lcm, lcm), lcm)

\* a mandatory array parameter does not bind to an empty array
Solve_CRT(Rests, Mods) ==
    IF Len(Rests) = 0 \/ Len(Mods) = 0
    THEN [kind |-> "ParameterBinding"]
    ELSE IF Len(Rests) # Len(Mods)
         THEN [kind |-> "CountMismatch"]
         ELSE CrtFrom(Rests, Mods, 1, 0, 1)

\* moduli 1 .. MaxMod of either sign, arguments up to twice that
MaxMod == 4
InverseInputs ==
    (((-2 * MaxMod)..(2 * MaxMod)) \X {m \in (-MaxMod)..MaxMod : m # 0})
    \cup {<< 3, 11 >>, << 10, 17 >>, << 6, 9 >>, << -3, 11 >>}

\* lists of at most MaxLen congruences, rests -1 .. MaxRest
MaxLen == 2
MaxRest == 3
SeqsUpTo(S, n) == UNION {[1..k -> S] : k \in 0..n}
CrtInputs ==
    (SeqsUpTo((-1)..MaxRest, MaxLen) \X SeqsUpTo(1..MaxMod, MaxLen))
    \cup {<< << 2, 3, 2 >>, << 3, 5, 7 >> >>}

CallInverseMod(a, m) ==
    /\ pc = "idle"
    /\ op' = "Get-InverseMod"
    /\ A' = a
    /\ B' = m
    /\ result' = Get_InverseMod(a, m)
    /\ pc' = "done"
    /\ UNCHANGED << Q, R, col, aug, i, oob >>
    /\ UNCHANGED graphVars

CallSolveCRT(Rests, Mods) ==
    /\ pc = "idle"
    /\ op' = "Solve-CRT"
    /\ A' = Rests
    /\ B' = Mods
    /\ result' = Solve_CRT(Rests, Mods)
    /\ pc' = "done"
    /\ UNCHANGED << Q, R, col, aug, i, oob >>
    /\ UNCHANGED graphVars

NextMod ==
    \/ pc = "idle" /\ \E p \in InverseInputs : CallInverseMod(p[1], p[2])
    \/ pc = "idle" /\ \E p \in CrtInputs : CallSolveCRT(p[1], p[2])
    \/ Return

SpecMod == Init /\ [][NextMod]_vars

\* every entry point of the kernel and of its collaborators
Next == NextQR \/ NextInv \/ NextOps \/ NextDijkstra \/ NextMod

Spec == Init /\ [][Next]_vars

(* ------------------------- vocabulary of the claims --------------------- *)
\* the tests compare within 1e-6 (QR, inverse) and 1e-5 (Moore-Penrose)
Tol6 == 1000000
Tol5 == 100000

\* |x - y| <= 1 / tolDen
Within(x, y, tolDen) ==
    LET d == fabs(RSub(x, y))
    IN  d[1] = 0 \/ tolDen <= d[2] \div d[1]

VecWithin(x, y, tolDen) ==
    /\ Len(x) = Len(y)
    /\ \A k \in 1..Len(x) : Within(x[k], y[k], tolDen)

MatWithin(X, Y, tolDen) ==
    /\ Len(X) = Len(Y)
    /\ \A r \in 1..Len(X) : VecWithin(X[r], Y[r], tolDen)

IsMatrixOfShape(X, m, n) ==
    /\ Len(X) = m
    /\ \A r \in 1..m : Len(X[r]) = n

\* the product of a matrix and a vector
MatVec(X, x) == [r \in 1..Len(X) |-> SumTo([k \in 1..Len(x) |-> RMul(X[r][k], x[k])], Len(x))]

\* X without row r and column c
Minor(X, r, c) ==
    [a \in 1..(Len(X) - 1) |-> [b \in 1..(Len(X) - 1) |->
        X[IF a < r THEN a ELSE a + 1][IF b < c THEN b ELSE b + 1]]]

RECURSIVE Det(_)
\* the determinant of a square matrix, expanded along its first row
Det(X) ==
    IF Len(X) = 0 THEN One
    ELSE SumTo([c \in 1..Len(X) |->
                  RMul(IF c % 2 = 1 THEN X[1][c] ELSE RNeg(X[1][c]), Det(Minor(X, 1, c)))],
               Len(X))

IsSquareMatrix(X) == Len(X) >= 1 /\ \A r \in 1..Len(X) : Len(X[r]) = Len(X)
Invertible(X) == IsSquareMatrix(X) /\ Det(X) # Zero

QRDone == op = "qr_decompose" /\ pc = "done"

\* C1: after qr_decompose(A), Q is m x m, R is m x n and every entry of
\* matmul(Q, R) equals the corresponding entry of A within 1e-6.
C1_QRReproducesA ==
    QRDone => /\ IsMatrixOfShape(Q, Len(A), Len(A))
              /\ IsMatrixOfShape(R, Len(A), Len(A[1]))
              /\ MatWithin(matmul(Q, R), A, Tol6)

\* C2: for a square nonsingular A and a right-hand side b of its size,
\* solve_qr on the factors of qr_decompose(A) returns x with matmul(A, x)
\* equal to b within 1e-6.
C2_SolveSatisfiesSystem ==
    (op = "solve_qr" /\ pc = "done" /\ Invertible(A) /\ Len(B) = Len(A))
        => /\ result.kind = "vector"
           /\ VecWithin(MatVec(A, result.val), B, Tol6)

\* C3: the factor Q returned by qr_decompose(A) is m x m and orthogonal:
\* every entry of matmul(transpose(Q), Q) equals that of identity(m) within 1e-6.
C3_QOrthogonal ==
    QRDone => /\ IsMatrixOfShape(Q, Len(A), Len(A))
              /\ MatWithin(matmul(transpose(Q), Q), identity(Len(A)), Tol6)

\* a decomposition of the 3 x 3 matrix of the unit test has returned
C3_Witness == QRDone /\ A = A_QR3 /\ Q # identity(3)

InverseDone == op = "inverse" /\ pc = "done"
PseudoinverseDone == op = "pseudoinverse" /\ pc = "done"

\* [[0.6, -0.7], [-0.2, 0.4]]
Inv_4726 == << << Rat(3, 5), Rat(-7, 10) >>, << Rat(-1, 5), Rat(2, 5) >> >>

\* C4: for an invertible square A, inverse(A) returns B with matmul(B, A)
\* equal to the identity within 1e-6 in every entry; for A = [[4,7],[2,6]]
\* inverse and pseudoinverse both return [[0.6,-0.7],[-0.2,0.4]] within 1e-6.
C4_InverseIsLeftInverse ==
    /\ (InverseDone /\ Invertible(A))
          => /\ result.kind = "matrix"
             /\ MatWithin(matmul(result.val, A), identity(Len(A)), Tol6)
    /\ ((InverseDone \/ PseudoinverseDone) /\ A = A_4726)
          => /\ result.kind = "matrix"
             /\ MatWithin(result.val, Inv_4726, Tol6)

\* inverse has returned the inverse of the matrix of the unit test
C4_Witness == InverseDone /\ A = A_4726 /\ result.kind = "matrix"

\* both Moore-Penrose identities within 1e-5 in every entry
MoorePenrose(X, P) ==
    /\ MatWithin(matmul(matmul(X, P), X), X, Tol5)
    /\ MatWithin(matmul(matmul(P, X), P), P, Tol5)

\* A^T A for rows >= cols, A A^T for rows < cols, entry by entry
NormalMatrix(X) ==
    LET m == Len(X)
        n == Len(X[1])
    IN  IF m >= n
        THEN [a \in 1..n |-> [b \in 1..n |->
                SumTo([r \in 1..m |-> RMul(X[r][a], X[r][b])], m)]]
        ELSE [a \in 1..m |-> [b \in 1..m |->
                SumTo([c \in 1..n |-> RMul(X[a][c], X[b][c])], n)]]

\* full column rank for rows >= cols, full row rank for rows < cols
FullRank(X) == Len(X) >= 1 /\ Len(X[1]) >= 1 /\ Det(NormalMatrix(X)) # Zero

\* C5 as stated: for any matrix A (with at least one row and one column),
\* pseudoinverse(A) returns P satisfying both Moore-Penrose identities
\* within 1e-5.
C5_MoorePenroseAny ==
    (PseudoinverseDone /\ Len(A) >= 1 /\ Len(A[1]) >= 1)
        => /\ result.kind = "matrix"
           /\ MoorePenrose(A, result.val)

\* C5 amended: for any matrix A of full rank (full column rank when
\* rows >= cols, full row rank when rows < cols), pseudoinverse(A) returns P
\* satisfying both Moore-Penrose identities within 1e-5.
C5_MoorePenroseFullRank ==
    (PseudoinverseDone /\ FullRank(A))
        => /\ result.kind = "matrix"
           /\ MoorePenrose(A, result.val)

\* pseudoinverse has returned for the 3 x 2 matrix of the unit test
C5_Witness == PseudoinverseDone /\ A = B_32 /\ result.kind = "matrix"

\* the largest absolute value among rows i.. of column i is below 1e-12
ColumnBelowEps(X, c) == \A r \in c..Len(X) : BelowEps(X[r][c])

\* C6: inverse fails with SingularMatrix, returning no matrix, if and only if
\* at some pivot column i the largest absolute value among rows i..n-1 of
\* column i of the current augmented matrix is below 1e-12: every iteration
\* of the elimination loop fails exactly in that case, the failure arises
\* nowhere else, and inverse([[1,2],[2,4]]) fails with SingularMatrix.
C6_SingularIffSmallPivot ==
    /\ [][/\ (pc = "pivot" /\ i <= Len(aug))
               => ((pc' = "done" /\ result'.kind = "SingularMatrix")
                      <=> ColumnBelowEps(aug, i))
          /\ (op' = "inverse" /\ result'.kind = "SingularMatrix"
                 /\ result.kind # "SingularMatrix")
               => (pc = "pivot" /\ i <= Len(aug) /\ ColumnBelowEps(aug, i))
          /\ (pc = "pivot" /\ result'.kind = "matrix")
               => (i > Len(aug) /\ result'.val = ExtractInverse(aug))]_vars
    /\ []((InverseDone /\ A = A_1224) => result.kind = "SingularMatrix")

\* inverse([[1,2],[2,4]]) has failed at its second pivot column
C6_Witness == InverseDone /\ A = A_1224 /\ result.kind = "SingularMatrix" /\ i = 2

\* C7: inverse fails with NonSquareMatrix, before any elimination step and
\* without returning a matrix, for every input whose row count differs from
\* its column count and for the empty matrix; such inputs are never reported
\* as SingularMatrix.
C7_NonSquareRejected ==
    (op = "inverse" /\ (Len(A) = 0 \/ Len(A[1]) # Len(A)))
        => /\ pc = "done"
           /\ result.kind = "NonSquareMatrix"
           /\ aug = << >>
           /\ i = 0

\* inverse has rejected a matrix of one row and two columns
C7_Witness ==
    /\ InverseDone
    /\ IsMatrixOfShape(A, 1, 2)
    /\ result.kind = "NonSquareMatrix"

\* C8: matmul(A, B) fails with DimensionMismatch whenever the column count of
\* A differs from the row count of B; it returns no product matrix and reads
\* nothing outside A or B for such operands.
C8_MatmulRejectsMismatch ==
    (op = "matmul" /\ pc = "done" /\ Len(A) >= 1 /\ Len(A[1]) # Len(B))
        => /\ result.kind = "DimensionMismatch"
           /\ ~oob

\* C9: transpose(A) has no error condition: for every m x n matrix A,
\* m = 0 or n = 0 included, it returns the n x m matrix whose element (j,i)
\* is A(i,j) and reads no row or entry that A does not have.
C9_TransposeTotal ==
    (op = "transpose" /\ pc = "done")
        => /\ ~oob
           /\ result.kind = "matrix"
           /\ IsMatrixOfShape(result.val, IF Len(A) = 0 THEN 0 ELSE Len(A[1]), Len(A))
           /\ \A r \in 1..Len(A) : \A c \in 1..Len(A[r]) : result.val[c][r] = A[r][c]

\* C10: on a matrix with rows >= 1 and cols >= 1, pseudoinverse chooses its
\* formula by shape alone (A^T A inverted when rows >= cols, A A^T when
\* rows < cols) and fails with SingularMatrix, returning no matrix, exactly
\* when inverse of that normal-equations matrix fails; on a matrix with zero
\* rows or zero columns it returns the empty matrix without error.
C10_PseudoinverseByShape ==
    PseudoinverseDone =>
        IF Len(A) = 0 \/ Len(A[1]) = 0
        THEN result = [kind |-> "matrix", val |-> << >>]
        ELSE LET G == inverse(NormalMatrix(A))
             IN  /\ result.kind \in {"matrix", "SingularMatrix"}
                 /\ (result.kind = "SingularMatrix") <=> (G.kind # "matrix")
                 /\ result.kind = "matrix" =>
                       result.val = IF Len(A) >= Len(A[1])
                                    THEN matmul(G.val, transpose(A))
                                    ELSE matmul(transpose(A), G.val)

\* pseudoinverse has failed on a tall matrix whose A^T A is singular
C10_Witness ==
    /\ PseudoinverseDone
    /\ IsMatrixOfShape(A, 2, 1)
    /\ result.kind = "SingularMatrix"

(* --------------------------- claims about dijkstra ---------------------- *)
DijkstraDone == op = "dijkstra" /\ pc = "done"

NonNegative(g) == \A u \in 1..Len(g) : \A k \in 1..Len(g[u]) : g[u][k][2] >= 0

\* the edges of g as << tail, head, weight >>
EdgeSet(g) ==
    UNION {{<< u, g[u][k][1], g[u][k][2] >> : k \in 1..Len(g[u])} :
              u \in 1..Len(g)}

MinOf(S) == CHOOSE x \in S : \A y \in S : x <= y

\* the least weight of a directed path of at most k edges from s to each node
RECURSIVE PathWeights(_, _, _)
PathWeights(g, s, k) ==
    IF k = 0
    THEN [v \in 1..Len(g) |-> IF v = s THEN 0 ELSE Infinity]
    ELSE LET prev == PathWeights(g, s, k - 1)
         IN  [v \in 1..Len(g) |->
                 MinOf({prev[v]} \cup
                       {prev[e[1]] + e[3] :
                           e \in {f \in EdgeSet(g) :
                                     f[2] = v /\ prev[f[1]] # Infinity}})]

\* the nodes that a directed path from a node of S reaches
RECURSIVE ReachFrom(_, _)
ReachFrom(g, S) ==
    LET T == S \cup UNION {{g[u][k][1] : k \in 1..Len(g[u])} : u \in S}
    IN  IF T = S THEN S ELSE ReachFrom(g, T)

\* C11: on a graph without negative weights dijkstra returns one distance per
\* node: 0 for the source, the least total weight of a directed path from the
\* source for every node that has one, and infinity for the others
C11_ShortestPaths ==
    (DijkstraDone /\ NonNegative(adj)) =>
        /\ result.kind = "dist"
        /\ Len(result.val) = Len(adj)
        /\ result.val[source] = 0
        /\ result.val = PathWeights(adj, source, Len(adj) - 1)
        /\ \A v \in 1..Len(adj) :
              v \notin ReachFrom(adj, {source}) <=> result.val[v] = Infinity

\* the graph of the test yields the distances 0, 1, 3, 4
C11_Witness ==
    /\ DijkstraDone
    /\ adj = G_Test
    /\ source = 1
    /\ result = [kind |-> "dist", val |-> << 0, 1, 3, 4 >>]

\* C12 as stated: a graph with a negative weight anywhere makes the call fail
C12_AnyNegativeRejected ==
    (DijkstraDone /\ ~NonNegative(adj)) => result.kind = "NegativeWeight"

\* the nodes reachable from the source that have a negative out-edge
ReachedNegative(g, s) ==
    {u \in ReachFrom(g, {s}) : \E k \in 1..Len(g[u]) : g[u][k][2] < 0}

\* C12: the call fails, and returns no distances, exactly when a negative edge
\* leaves a node that is reachable from the source; negative edges that leave
\* unreachable nodes are never looked at and the distances are returned
C12_ReachedNegativeRejected ==
    DijkstraDone =>
        /\ result.kind \in {"NegativeWeight", "dist"}
        /\ result.kind = "NegativeWeight" <=>
               ReachedNegative(adj, source) # {}

\* the negative edge comes after an edge that has improved a distance
C12_Witness ==
    /\ DijkstraDone
    /\ adj = G_Late
    /\ source = 1
    /\ result = [kind |-> "NegativeWeight"]

\* C18: without negative weights, the out-edges of a node are relaxed only in
\* the iteration that marks it visited, with its distance as the key; a
\* visited node stays visited and keeps its distance; the distances are
\* returned with the queue empty
C18_VisitedOnce ==
    [][(op = "dijkstra" /\ op' = "dijkstra" /\ NonNegative(adj)) =>
          /\ (pc = "loop" /\ pc' = "relax") =>
                 /\ ~visited[top'[2]]
                 /\ visited'[top'[2]]
                 /\ dist[top'[2]] = top'[1]
          /\ \A v \in 1..Len(adj) :
                 visited[v] => (visited'[v] /\ dist'[v] = dist[v])
          /\ (pc' = "done" /\ result'.kind = "dist") => pq = EmptyBag]_vars

\* an entry of a visited node has just been taken from the queue and skipped
C18_Witness ==
    /\ op = "dijkstra"
    /\ pc = "loop"
    /\ NonNegative(adj)
    /\ top # << >>
    /\ visited[top[2]]
    /\ top[1] > dist[top[2]]

(* ---------------------- claims about modular arithmetic ----------------- *)
InverseModDone == op = "Get-InverseMod" /\ pc = "done"
SolveCRTDone == op = "Solve-CRT" /\ pc = "done"

\* d divides n, d not 0
Divides(d, n) == n % Abs(d) = 0

Coprime(a, m) == \A d \in 2..Abs(m) : ~(Divides(d, a) /\ Divides(d, m))

\* C13: for A of either sign and a modulus M coprime to A, Get-InverseMod
\* returns x with A*x = 1 modulo M; when A and M are not coprime it throws
C13_InverseModAnySign ==
    InverseModDone =>
        IF Coprime(A, B)
        THEN result.kind = "int" /\ Divides(B, A * result.val - 1)
        ELSE result.kind = "NoInverse"

RECURSIVE ProductOf(_, _)
ProductOf(Mods, k) == IF k > Len(Mods) THEN 1 ELSE Mods[k] * ProductOf(Mods, k + 1)

\* the least common multiple of positive moduli
LcmOf(Mods) ==
    MinOf({L \in 1..ProductOf(Mods, 1) :
              \A k \in 1..Len(Mods) : Divides(Mods[k], L)})

Solves(y, Rests, Mods) ==
    \A k \in 1..Len(Mods) : Divides(Mods[k], y - Rests[k])

Solvable(Rests, Mods) == \E y \in 0..(LcmOf(Mods) - 1) : Solves(y, Rests, Mods)

\* what Solve-CRT returns, when it returns
CrtResultRight ==
    result.kind = "crt" =>
        /\ result.Modulus = LcmOf(B)
        /\ 0 <= result.Solution
        /\ result.Solution < result.Modulus
        /\ Solves(result.Solution, A, B)

\* C14 as stated: for lists of any length, Solve-CRT throws exactly when the
\* lengths differ or no x satisfies all the congruences
C14_CRTAnyLists ==
    SolveCRTDone =>
        /\ CrtResultRight
        /\ result.kind # "crt" <=> (Len(A) # Len(B) \/ ~Solvable(A, B))

\* C14: whenever Solve-CRT returns, Modulus is the least common multiple of
\* Mods, 0 <= Solution < Modulus and Solution satisfies every congruence; it
\* throws exactly when a list is empty, the lengths differ, or no x satisfies
\* all the congruences
C14_CRTNonEmptyLists ==
    SolveCRTDone =>
        /\ CrtResultRight
        /\ result.kind # "crt" <=>
               \/ Len(A) = 0
               \/ Len(B) = 0
               \/ Len(A) # Len(B)
               \/ ~Solvable(A, B)

\* a system whose moduli share a factor is solved modulo their least common
\* multiple
C14_Witness ==
    /\ SolveCRTDone
    /\ A = << 1, 3 >>
    /\ B = << 2, 4 >>
    /\ result = [kind |-> "crt", Solution |-> 3, Modulus |-> 4]

(* ------------------ claims about the steps of the kernel ---------------- *)
\* a step of the reflection loop of qr_decompose
ReflectStep == op = "qr_decompose" /\ pc = "reflect" /\ col' = col + 1
\* the step that leaves the loop, cleans R up and returns
CleanupStep == op = "qr_decompose" /\ pc = "reflect" /\ pc' = "done"

\* C15: the reflection for column col leaves the rows before col of the
\* accumulator Q as they are, the accumulator times A is the unreduced R when
\* the loop ends, and the returned Q is the transpose of the accumulator
C15_RowRangeAccumulation ==
    /\ [][ReflectStep => \A r \in 1..(col - 1) : Q'[r] = Q[r]]_vars
    /\ []((op = "qr_decompose" /\ pc = "reflect" /\ col > min_dim(A)) =>
             matmul(Q, A) = R)
    /\ [][CleanupStep => Q' = transpose(Q)]_vars

LargestRows(M, c) ==
    {r \in c..Len(M) :
        \A q \in c..Len(M) : ~RLt(fabs(M[r][c]), fabs(M[q][c]))}

\* C17: the pivot row for column i is the lowest of the rows from i on whose
\* entry in column i is largest in absolute value, and when row i is one of
\* them no rows are swapped
C17_PivotChoice ==
    [][(pc = "pivot" /\ i' = i + 1) =>
          LET p == MinOf(LargestRows(aug, i))
          IN  /\ aug' = EliminateOthers(NormalizeRow(SwapRows(aug, p, i), i), i)
              /\ i \in LargestRows(aug, i) =>
                     aug' = EliminateOthers(NormalizeRow(aug, i), i)]_vars

\* rows 1 and 2 tie in column 1 with opposite signs: row 1 was the pivot
C17_Witness ==
    /\ op = "inverse"
    /\ pc = "pivot"
    /\ i = 2
    /\ A = IntMat(<< <<1, 0>>, <<-1, 1>> >>)
    /\ aug = IntMat(<< <<1, 0, 1, 0>>, <<0, 1, 1, 1>> >>)
====
